---- MODULE Spec2Model ----
(***************************************************************************)
(* Ground Conformer (ground_conformer.py): the operator                    *)
(* OBJECT_OT_ground_conform.execute with its helpers extreme_offset and    *)
(* cast_axis_ray, run against a model of the host scene.                   *)
(*                                                                         *)
(* Numbers.  mathutils.Vector holds IEEE single-precision components.  A   *)
(* coordinate c of the model stands for the float c * 2^-13, so that an    *)
(* integer is representable exactly when it has at most 24 significant     *)
(* bits; F32 rounds to nearest, ties to even.  A surface normal is a unit  *)
(* vector; the model holds it as UnitLen times the unit vector, and every  *)
(* quantity obtained by a dot product with a normal carries that factor.   *)
(*                                                                         *)
(* Host.  Writing obj.location or obj.rotation_quaternion changes the      *)
(* object's properties; obj.matrix_world and the geometry the dependency   *)
(* graph gives to scene.ray_cast are the values of the last evaluation,    *)
(* which execute requests once (evaluated_depsgraph_get) and never again.  *)
(* Objects are unparented and unscaled; a mesh is either a box (the mesh   *)
(* fills its bounding box) or an unbounded plane.                          *)
(***************************************************************************)
EXTENDS Integers, Sequences, FiniteSets, TLC

VARIABLES
    scene,            \* static object data: type, geometry, bound box, plane
    selected_objects, \* ctx.selected_objects, in the order execute visits them
    ray_direction,    \* operator property (enum key)
    ray_max,          \* operator property
    align_rotation,   \* operator property
    location,         \* obj.location of every object
    rotation,         \* obj's orientation (columns: images of local X, Y, Z)
    rotation_mode,    \* obj.rotation_mode
    matrix_world,     \* evaluated transform of every object: [loc, rot]
    pc,               \* "idle" | "loop" | "while"
    idx,              \* position of the for loop in selected_objects
    start,            \* cast_axis_ray: start
    hit,              \* cast_axis_ray: hit
    loc,              \* cast_axis_ray: loc
    normal,           \* cast_axis_ray: normal (UnitLen times the unit vector)
    hit_obj,          \* cast_axis_ray: hit_obj
    reports,          \* self.report calls of the running/last invocation
    result,           \* return value of the last finished invocation
    invocations,      \* number of finished invocations
    hist              \* observations of the run (read by the properties only)

vars == << scene, selected_objects, ray_direction, ray_max, align_rotation,
           location, rotation, rotation_mode, matrix_world, pc, idx, start,
           hit, loc, normal, hit_obj, reports, result, invocations, hist >>

-----------------------------------------------------------------------------
(* Bounds of the model *)

MaxInvocations == 2
MaxRetries == 4

-----------------------------------------------------------------------------
(* Vectors (mathutils.Vector) *)

Zero3 == <<0, 0, 0>>

Add(a, b) == <<a[1] + b[1], a[2] + b[2], a[3] + b[3]>>

Sub(a, b) == <<a[1] - b[1], a[2] - b[2], a[3] - b[3]>>

Scale(a, k) == <<a[1] * k, a[2] * k, a[3] * k>>

Dot(a, b) == a[1] * b[1] + a[2] * b[2] + a[3] * b[3]

Abs(x) == IF x < 0 THEN -x ELSE x

SetMin(S) == CHOOSE m \in S : \A x \in S : m <= x

SetMax(S) == CHOOSE m \in S : \A x \in S : m >= x

\* Significand width of a Vector component (single precision).
Mantissa == 24

RECURSIVE Ulp(_, _)
\* Spacing of the representable numbers around magnitude a (s: candidate).
Ulp(a, s) == IF a < (2 ^ Mantissa) * s THEN s ELSE Ulp(a, 2 * s)

\* Round one coordinate to single precision: nearest, ties to even.
F32(x) ==
    LET s == Ulp(Abs(x), 1)
        q == x \div s
        r == x - q * s
    IN  IF 2 * r < s THEN q * s
        ELSE IF 2 * r > s THEN (q + 1) * s
        ELSE IF q % 2 = 0 THEN q * s ELSE (q + 1) * s

F32v(v) == <<F32(v[1]), F32(v[2]), F32(v[3])>>

\* Length of a unit vector in the representation of normals.
UnitLen == 5

\* Vector.normalized() for the vectors of _DIR_MAP (one non-zero component).
normalized(v) ==
    LET len == Abs(v[1]) + Abs(v[2]) + Abs(v[3])
    IN  <<v[1] \div len, v[2] \div len, v[3] \div len>>

-----------------------------------------------------------------------------
(* Rotations: a triple of columns, the images of the local axes *)

IdentityRot == << <<1, 0, 0>>, <<0, 1, 0>>, <<0, 0, 1>> >>

\* A quarter turn about local X: local Y -> world Z, local Z -> world -Y.
LyingRot == << <<1, 0, 0>>, <<0, 0, 1>>, <<0, -1, 0>> >>

Rotate(R, v) == Add(Add(Scale(R[1], v[1]), Scale(R[2], v[2])), Scale(R[3], v[3]))

Cross(a, b) == << a[2] * b[3] - a[3] * b[2],
                  a[3] * b[1] - a[1] * b[3],
                  a[1] * b[2] - a[2] * b[1] >>

\* Vector.to_track_quat('Z', 'Y') of an axis-parallel unit normal n (given as
\* UnitLen * n): local Z along n, local Y as close to world +Z as n allows.
\* For n = +-Z the roll is what the host's vec_to_quat produces there: a half
\* turn about world Z after the shortest turn of Z onto n.
to_track_quat(n) ==
    LET z == <<n[1] \div UnitLen, n[2] \div UnitLen, n[3] \div UnitLen>>
    IN  IF z = <<0, 0, 1>> THEN << <<-1, 0, 0>>, <<0, -1, 0>>, z >>
        ELSE IF z = <<0, 0, -1>> THEN << <<-1, 0, 0>>, <<0, 1, 0>>, z >>
        ELSE << Cross(<<0, 0, 1>>, z), <<0, 0, 1>>, z >>

\* obj.matrix_world @ Vector(c) for a transform M = [loc, rot].
MatMul(M, c) == Add(M.loc, Rotate(M.rot, c))

-----------------------------------------------------------------------------
(* Objects *)

Objs == {"G", "G2", "A", "B", "E"}

\* obj.bound_box: the 8 corners of the local box [lo, hi].
bound_box(o) ==
    { <<x, y, z>> : x \in {scene[o].lo[1], scene[o].hi[1]},
                    y \in {scene[o].lo[2], scene[o].hi[2]},
                    z \in {scene[o].lo[3], scene[o].hi[3]} }

\* The corners of o's bounding box in world space under the transforms M.
WorldCorners(M, o) == { MatMul(M[o], c) : c \in bound_box(o) }

\* corners_world of extreme_offset: obj.matrix_world is the evaluated transform.
corners_world(o) == WorldCorners(matrix_world, o)

\* extreme_offset taking the corner farthest along the normal (max for min).
extreme_offset_max(o, n) ==
    SetMax({ Dot(Sub(co, location[o]), n) : co \in corners_world(o) })

\* extreme_offset measuring from the world origin (obj.location not subtracted).
extreme_offset_world(o, n) ==
    SetMin({ Dot(co, n) : co \in corners_world(o) })

\* extreme_offset(obj, normal), times UnitLen: the corners come from
\* obj.matrix_world, the origin subtracted is the property obj.location.
extreme_offset(o, n) ==
    SetMin({ Dot(Sub(co, location[o]), n) : co \in corners_world(o) })

\* The transforms an evaluation of the dependency graph produces.
Evaluated == [o \in Objs |-> [loc |-> location[o], rot |-> rotation[o]]]

-----------------------------------------------------------------------------
(* scene.ray_cast(depsgraph, origin, direction, distance=...) *)

AxisOf(d) == CHOOSE a \in 1..3 : d[a] # 0

AxisVec(a, s) == << IF a = 1 THEN s ELSE 0, IF a = 2 THEN s ELSE 0,
                    IF a = 3 THEN s ELSE 0 >>

\* Intersections of the ray with a box mesh: its two faces across the ray,
\* each with the face's outward normal, when the ray passes through the box.
BoxHits(M, o, origin, d) ==
    LET cw == WorldCorners(M, o)
        a == AxisOf(d)
        lo == << SetMin({c[1] : c \in cw}), SetMin({c[2] : c \in cw}),
                 SetMin({c[3] : c \in cw}) >>
        hi == << SetMax({c[1] : c \in cw}), SetMax({c[2] : c \in cw}),
                 SetMax({c[3] : c \in cw}) >>
    IN  IF \A k \in (1..3) \ {a} : lo[k] <= origin[k] /\ origin[k] <= hi[k]
        THEN { [t |-> (lo[a] - origin[a]) * d[a], n |-> AxisVec(a, -UnitLen), obj |-> o],
               [t |-> (hi[a] - origin[a]) * d[a], n |-> AxisVec(a, UnitLen), obj |-> o] }
        ELSE {}

\* Intersection of the ray with an unbounded plane n . p = d.
PlaneHits(o, origin, d) ==
    LET P == scene[o].plane
        den == Dot(P.n, d)
        num == P.d - Dot(P.n, origin)
    IN  IF den = 0 THEN {}
        ELSE {[t |-> IF den > 0 THEN num \div den ELSE (-num) \div (-den),
               n |-> P.n, obj |-> o]}

Intersections(M, o, origin, d) ==
    IF scene[o].geom = "box" THEN BoxHits(M, o, origin, d)
    ELSE IF scene[o].geom = "plane" THEN PlaneHits(o, origin, d)
    ELSE {}

NoHitResult == [hit |-> FALSE, loc |-> Zero3, normal |-> Zero3, obj |-> "None"]

\* The results scene.ray_cast may return on the geometry placed by M: the
\* nearest intersection with 0 <= t < distance; among several objects'
\* surfaces at the same distance, whichever the traversal meets first.
RayCastIn(M, origin, d, distance) ==
    LET all == UNION { Intersections(M, o, origin, d) : o \in Objs }
        ok == { i \in all : 0 <= i.t /\ i.t < distance }
    IN  IF ok = {} THEN {NoHitResult}
        ELSE LET tmin == SetMin({i.t : i \in ok})
             IN  { [hit |-> TRUE, loc |-> F32v(Add(origin, Scale(d, i.t))),
                    normal |-> i.n, obj |-> i.obj] : i \in {j \in ok : j.t = tmin} }

\* scene.ray_cast with the depsgraph execute holds.
ray_cast(origin, d, distance) == RayCastIn(matrix_world, origin, d, distance)

-----------------------------------------------------------------------------
(* Operator properties and the scenes of the model *)

DIR_MAP == [ NEG_Z |-> <<0, 0, -1>>, POS_Z |-> <<0, 0, 1>>,
             NEG_X |-> <<-1, 0, 0>>, POS_X |-> <<1, 0, 0>>,
             NEG_Y |-> <<0, -1, 0>>, POS_Y |-> <<0, 1, 0>> ]

Directions == {"NEG_Z", "POS_Z", "NEG_X", "POS_X", "NEG_Y", "POS_Y"}

\* ray_max: the default 1000.0 (in units of 2^-13).
DefaultRayMax == 8192000

\* The values of ray_max the model draws: two short probes and the default.
RayMaxValues == {450, 750, DefaultRayMax}

\* The nudge of the retry: 1e-4, which is 0.82 units; it is held as one unit
\* (from 2^25 on, where the floats are 4 apart, both round to no move at all).
Epsilon == 1

NoPlane == [n |-> Zero3, d |-> 0]

Box(lo, hi) == [type |-> "MESH", geom |-> "box", lo |-> lo, hi |-> hi, plane |-> NoPlane]

Plane(n, d) == [type |-> "MESH", geom |-> "plane", lo |-> Zero3, hi |-> Zero3,
                plane |-> [n |-> n, d |-> d]]

Empty == [type |-> "EMPTY", geom |-> "none", lo |-> Zero3, hi |-> Zero3, plane |-> NoPlane]

Cube == Box(<<-300, -300, -300>>, <<300, 300, 300>>)

Tall == Box(<<-300, -300, -600>>, <<300, 300, 600>>)

Far == 2 ^ 25

\* A ground: the surface G, the axis the boxes are stacked along from `base`.
Grounds ==
    { [kind |-> "flat",   g |-> Plane(<<0, 0, 5>>, 0), g2 |-> Empty,
       up |-> <<0, 0, 1>>, base |-> Zero3],
      [kind |-> "two",    g |-> Plane(<<0, 0, 5>>, 0), g2 |-> Plane(<<0, 0, 5>>, -6000),
       up |-> <<0, 0, 1>>, base |-> Zero3],
      [kind |-> "tilted", g |-> Plane(<<3, 0, 4>>, 0), g2 |-> Empty,
       up |-> <<0, 0, 1>>, base |-> Zero3],
      [kind |-> "wall",   g |-> Plane(<<5, 0, 0>>, 0), g2 |-> Empty,
       up |-> <<1, 0, 0>>, base |-> Zero3],
      [kind |-> "far",    g |-> Plane(<<0, 0, 5>>, 5 * Far), g2 |-> Empty,
       up |-> <<0, 0, 1>>, base |-> <<0, 0, Far>>] }

\* Where box B stands relative to box A (from `base`, in units along `up` and Y).
Placements == { [up |-> 2700, side |-> 0], [up |-> 1500, side |-> 1200] }

Selections == { <<"A">>, <<"A", "B">>, <<"B", "A">>, <<"E", "A">> }

StartLocation(gr, pl, o) ==
    CASE o = "A" -> Add(gr.base, Scale(gr.up, 1500))
      [] o = "B" -> Add(Add(gr.base, Scale(gr.up, pl.up)), <<0, pl.side, 0>>)
      [] OTHER -> Zero3

NoCast == [done |-> FALSE, hit |-> FALSE, loc |-> Zero3, normal |-> Zero3,
           obj |-> "None", start0 |-> Zero3, retries |-> 0]

\* What the properties read of a run: the properties at the start of the
\* running (or last) invocation, the course of the running cast, the outcome of
\* each object's cast in this invocation and in the one before it.
HistAt(l, r, m) ==
    [ preLoc |-> l, preRot |-> r, preMode |-> m, prevPreRot |-> r,
      start0 |-> Zero3, retries |-> 0, selfHits |-> <<>>,
      cast |-> [o \in Objs |-> NoCast], prevCast |-> [o \in Objs |-> NoCast],
      castFor |-> {} ]

Init ==
    \E gr \in Grounds, shapeA \in {Cube, Tall}, rotA \in {IdentityRot, LyingRot},
       sel \in Selections, pl \in Placements, dir \in Directions, rmax \in RayMaxValues,
       al \in BOOLEAN :
       \* the model holds no tilted boxes: alignment is drawn on axis-parallel surfaces
       /\ al => gr.kind # "tilted"
       \* a quarter turn changes the extent only of the box that is no cube
       /\ rotA = LyingRot => shapeA = Tall
       /\ scene = [o \in Objs |->
                     CASE o = "G" -> gr.g
                       [] o = "G2" -> gr.g2
                       [] o = "A" -> shapeA
                       [] o = "B" -> Cube
                       [] OTHER -> Empty]
       /\ selected_objects = sel
       /\ ray_direction = dir
       /\ ray_max = rmax
       /\ align_rotation = al
       /\ location = [o \in Objs |-> StartLocation(gr, pl, o)]
       /\ rotation = [o \in Objs |-> IF o = "A" THEN rotA ELSE IdentityRot]
       /\ rotation_mode = [o \in Objs |-> "XYZ"]
       /\ matrix_world = [o \in Objs |->
                     [loc |-> StartLocation(gr, pl, o),
                      rot |-> IF o = "A" THEN rotA ELSE IdentityRot]]
       /\ pc = "idle"
       /\ idx = 0
       /\ start = Zero3
       /\ hit = FALSE
       /\ loc = Zero3
       /\ normal = Zero3
       /\ hit_obj = "None"
       /\ reports = <<>>
       /\ result = "NONE"
       /\ invocations = 0
       /\ hist = HistAt([o \in Objs |-> StartLocation(gr, pl, o)],
                        [o \in Objs |-> IF o = "A" THEN rotA ELSE IdentityRot],
                        [o \in Objs |-> "XYZ"])

-----------------------------------------------------------------------------
(* execute and cast_axis_ray, step by step *)

\* The object the for loop is at.
obj == selected_objects[idx]

\* direction.normalized() of cast_axis_ray.
direction == normalized(DIR_MAP[ray_direction])

\* start = obj.location - direction * ray_max
RayStart(o) == F32v(Sub(location[o], Scale(direction, ray_max)))

\* distance = ray_max * 2, of the first query and of every retry
RayDistance == ray_max * 2

\* start = loc + direction * eps
NudgedStart(l) == F32v(Add(l, Scale(direction, Epsilon)))

\* The while condition: hit and hit_obj == obj
SelfHit == hit /\ hit_obj = obj

\* loc + normal * offset (the sign of the translation reversed).
NewLocationPlus(l, n, offset) ==
    LET m == Scale(n, offset)
        u == UnitLen * UnitLen
    IN  F32v(Add(l, <<m[1] \div u, m[2] \div u, m[3] \div u>>))

\* loc - normal * offset (offset carries UnitLen, and so does normal)
NewLocation(l, n, offset) ==
    LET m == Scale(n, offset)
        u == UnitLen * UnitLen
    IN  F32v(Sub(l, <<m[1] \div u, m[2] \div u, m[3] \div u>>))

\* if self.align_rotation: obj.rotation_quaternion = normal.to_track_quat('Z', 'Y')
NewRotation(o, n) == IF align_rotation THEN to_track_quat(n) ELSE rotation[o]

\* if self.align_rotation: obj.rotation_mode = 'QUATERNION'
NewRotationMode(o) == IF align_rotation THEN "QUATERNION" ELSE rotation_mode[o]

\* The type test left out: every selected object is cast for.
SkippedNever(o) == FALSE

\* if obj.type != 'MESH': continue
Skipped(o) == scene[o].type # "MESH"

CastVars == << start, hit, loc, normal, hit_obj >>
PropVars == << scene, selected_objects, ray_direction, ray_max, align_rotation >>

\* execute, lines 99-101: the depsgraph is evaluated, the loop starts.
Invoke ==
    /\ pc = "idle"
    /\ invocations < MaxInvocations
    /\ matrix_world' = Evaluated
    /\ idx' = 1
    /\ pc' = "loop"
    /\ reports' = <<>>
    /\ result' = "RUNNING"
    /\ hist' = [HistAt(location, rotation, rotation_mode) EXCEPT
                    !.prevCast = hist.cast, !.prevPreRot = hist.preRot]
    /\ UNCHANGED << PropVars, location, rotation, rotation_mode, CastVars, invocations >>

\* the loop is exhausted: return {'FINISHED'}
Return ==
    /\ pc = "loop"
    /\ idx > Len(selected_objects)
    /\ pc' = "idle"
    /\ result' = "FINISHED"
    /\ invocations' = invocations + 1
    /\ UNCHANGED << PropVars, location, rotation, rotation_mode, matrix_world, idx,
                    CastVars, reports, hist >>

\* lines 104-105
SkipNonMesh ==
    /\ pc = "loop"
    /\ idx <= Len(selected_objects)
    /\ Skipped(obj)
    /\ idx' = idx + 1
    /\ UNCHANGED << PropVars, location, rotation, rotation_mode, matrix_world, pc,
                    CastVars, reports, result, invocations, hist >>

\* cast_axis_ray, lines 38-40: the first query
CastFirst ==
    /\ pc = "loop"
    /\ idx <= Len(selected_objects)
    /\ ~Skipped(obj)
    /\ start' = RayStart(obj)
    /\ \E r \in ray_cast(RayStart(obj), direction, RayDistance) :
          /\ hit' = r.hit
          /\ loc' = r.loc
          /\ normal' = r.normal
          /\ hit_obj' = r.obj
    /\ pc' = "while"
    /\ hist' = [hist EXCEPT !.start0 = RayStart(obj), !.retries = 0, !.selfHits = <<>>,
                             !.castFor = @ \cup {obj}]
    /\ UNCHANGED << PropVars, location, rotation, rotation_mode, matrix_world, idx,
                    reports, result, invocations >>

\* cast_axis_ray, lines 43-45: one turn of the while loop
Retry ==
    /\ pc = "while"
    /\ SelfHit
    /\ hist.retries < MaxRetries
    /\ start' = NudgedStart(loc)
    /\ \E r \in ray_cast(NudgedStart(loc), direction, RayDistance) :
          /\ hit' = r.hit
          /\ loc' = r.loc
          /\ normal' = r.normal
          /\ hit_obj' = r.obj
    /\ hist' = [hist EXCEPT !.retries = @ + 1, !.selfHits = Append(@, loc)]
    /\ UNCHANGED << PropVars, location, rotation, rotation_mode, matrix_world, pc, idx,
                    reports, result, invocations >>

CastRecord == [done |-> TRUE, hit |-> hit, loc |-> loc, normal |-> normal,
               obj |-> hit_obj, start0 |-> hist.start0, retries |-> hist.retries]

\* No hit ends the invocation (return where the code has continue).
NoHitReturns ==
    /\ pc = "while"
    /\ ~SelfHit
    /\ ~hit
    /\ reports' = Append(reports, obj)
    /\ pc' = "idle"
    /\ result' = "FINISHED"
    /\ invocations' = invocations + 1
    /\ hist' = [hist EXCEPT !.cast[obj] = CastRecord]
    /\ UNCHANGED << PropVars, location, rotation, rotation_mode, matrix_world, idx,
                    CastVars >>

\* lines 108-110: no hit
NoHit ==
    /\ pc = "while"
    /\ ~SelfHit
    /\ ~hit
    /\ reports' = Append(reports, obj)
    /\ idx' = idx + 1
    /\ pc' = "loop"
    /\ hist' = [hist EXCEPT !.cast[obj] = CastRecord]
    /\ UNCHANGED << PropVars, location, rotation, rotation_mode, matrix_world,
                    CastVars, result, invocations >>

\* lines 112-117: align, measure, move
Conform ==
    /\ pc = "while"
    /\ ~SelfHit
    /\ hit
    /\ rotation_mode' = [rotation_mode EXCEPT ![obj] = NewRotationMode(obj)]
    /\ rotation' = [rotation EXCEPT ![obj] = NewRotation(obj, normal)]
    /\ location' = [location EXCEPT ![obj] =
                        NewLocation(loc, normal, extreme_offset(obj, normal))]
    /\ idx' = idx + 1
    /\ pc' = "loop"
    /\ hist' = [hist EXCEPT !.cast[obj] = CastRecord]
    /\ UNCHANGED << PropVars, matrix_world, CastVars, reports, result, invocations >>

Next == Invoke \/ Return \/ SkipNonMesh \/ CastFirst \/ Retry \/ NoHit \/ Conform

Spec == Init /\ [][Next]_vars

-----------------------------------------------------------------------------
(* What the properties speak of *)

\* The corners of o's bounding box in world space, from o's properties.
TrueCorners(o) == WorldCorners(Evaluated, o)

\* The least of dot(corner - l, n) over o's corners (times UnitLen).
MinAlong(o, l, n) == SetMin({ Dot(Sub(c, l), n) : c \in TrueCorners(o) })

\* The corners of o most extreme along -n.
ExtremeCorners(o, n) ==
    LET tc == TrueCorners(o)
        m == SetMin({ Dot(e, n) : e \in tc })
    IN  { c \in tc : Dot(c, n) = m }

\* The least of dot(corner - origin, n) over o's corners as o stood when the
\* invocation began (times UnitLen).
PreOffset(o, n) ==
    SetMin({ Dot(Rotate(hist.preRot[o], c), n) : c \in bound_box(o) })

\* The objects whose cast, in this invocation, returned a hit / no hit.
Hits == { o \in Objs : hist.cast[o].done /\ hist.cast[o].hit }

Misses == { o \in Objs : hist.cast[o].done /\ ~hist.cast[o].hit }

\* The selected objects of mesh type.
SelMesh ==
    { o \in Objs : scene[o].type = "MESH" /\ \E k \in 1..Len(selected_objects) : selected_objects[k] = o }

Count(seq, x) == Cardinality({ k \in 1..Len(seq) : seq[k] = x })

\* The position of a conformed object is hit point - normal * offset.
PlacedAt(o) ==
    LET c == hist.cast[o]
        u == UnitLen * UnitLen
    IN  Scale(location[o], u) = Sub(Scale(c.loc, u), Scale(c.normal, PreOffset(o, c.normal)))

Finished == pc = "idle" /\ invocations > 0

\* cast_axis_ray is about to return
CastReturns == pc = "while" /\ ~SelfHit

\* The intersections within the probe (origin s, length RayDistance) of the
\* casting object itself, and of the other objects.
ProbeSelf(s) ==
    { i \in Intersections(matrix_world, obj, s, direction) : 0 <= i.t /\ i.t < RayDistance }

ProbeOthers(s) ==
    { i \in UNION { Intersections(matrix_world, o, s, direction) : o \in Objs \ {obj} } :
        0 <= i.t /\ i.t < RayDistance }

-----------------------------------------------------------------------------
(* C1 *)

\* C1: every object whose cast returned a hit, with align_rotation false, stands at
\* loc - n * extreme_offset(obj, n), and the least of dot(corner - loc, n) over
\* its 8 world-space corners is zero.
C1_ConformRestsOnPlane ==
    \A o \in Hits :
        ~align_rotation =>
            /\ PlacedAt(o)
            /\ MinAlong(o, hist.cast[o].loc, hist.cast[o].normal) = 0

\* The cube over the horizontal plane, probed downward: it ends half its height
\* above the hit point.
C1_Witness ==
    /\ Finished
    /\ ~align_rotation
    /\ ray_direction = "NEG_Z"
    /\ scene["A"] = Cube
    /\ rotation["A"] = IdentityRot
    /\ hist.preLoc["A"] = <<0, 0, 1500>>
    /\ "A" \in Hits
    /\ hist.cast["A"].loc = Zero3
    /\ hist.cast["A"].normal = <<0, 0, 5>>
    /\ location["A"] = <<0, 0, 300>>

(* C2 *)

\* C2 as stated: after a successful conform some corner most extreme along the
\* negative hit normal is at the hit point itself, in every coordinate.
C2_CornerIsHitPoint ==
    \A o \in Hits : \E c \in ExtremeCorners(o, hist.cast[o].normal) : c = hist.cast[o].loc

\* C2, amended: after a successful conform that left the rotation as it was, every
\* corner most extreme along the negative hit normal lies in the plane through
\* the hit point perpendicular to the normal.
C2_CornerInHitPlane ==
    \A o \in Hits :
        rotation[o] = hist.preRot[o] =>
            \A c \in ExtremeCorners(o, hist.cast[o].normal) :
                Dot(Sub(c, hist.cast[o].loc), hist.cast[o].normal) = 0

\* A conformed object on the tilted plane: its extreme corner is in the plane,
\* away from the hit point.
C2_Witness ==
    \E o \in Hits :
        /\ rotation[o] = hist.preRot[o]
        /\ hist.cast[o].normal = <<3, 0, 4>>
        /\ \E c \in ExtremeCorners(o, hist.cast[o].normal) :
              /\ c # hist.cast[o].loc
              /\ Dot(Sub(c, hist.cast[o].loc), hist.cast[o].normal) = 0

(* C3 *)

\* C3: an object whose cast returned no hit keeps its position and rotation and
\* has exactly one notice; when the invocation has ended it ended FINISHED, every
\* selected mesh object was cast for, and those with a hit were placed.
C3_NoHitIsSkipped ==
    /\ \A o \in Misses :
          /\ location[o] = hist.preLoc[o]
          /\ rotation[o] = hist.preRot[o]
          /\ rotation_mode[o] = hist.preMode[o]
          /\ Count(reports, o) = 1
    /\ Finished =>
          /\ result = "FINISHED"
          /\ \A o \in SelMesh : hist.cast[o].done
          /\ \A o \in Hits : PlacedAt(o) /\ Count(reports, o) = 0

\* The first object found nothing, the later one was conformed.
C3_Witness ==
    /\ Finished
    /\ selected_objects = <<"A", "B">>
    /\ reports = <<"A">>
    /\ "B" \in Hits
    /\ location["B"] # hist.preLoc["B"]

(* C4 *)

\* C4: a position differs from what it was when the invocation began only for a
\* selected mesh object with a hit, a rotation only if also align_rotation is
\* true; an object that is unselected or no mesh is never cast for and produces
\* no notice.
C4_OnlyHitMeshesChange ==
    \A o \in Objs :
        /\ location[o] # hist.preLoc[o] => o \in SelMesh /\ o \in Hits
        /\ (rotation[o] # hist.preRot[o] \/ rotation_mode[o] # hist.preMode[o]) =>
              o \in SelMesh /\ o \in Hits /\ align_rotation
        /\ o \notin SelMesh =>
              /\ o \notin hist.castFor
              /\ ~hist.cast[o].done
              /\ Count(reports, o) = 0

\* A selected empty was passed over, the mesh after it was moved and turned,
\* the unselected mesh stayed.
C4_Witness ==
    /\ Finished
    /\ selected_objects = <<"E", "A">>
    /\ location["A"] # hist.preLoc["A"]
    /\ rotation["A"] # hist.preRot["A"]
    /\ location["B"] = hist.preLoc["B"]

(* C5 *)

\* C5 as stated: cast_axis_ray returns no hit on the casting object; when the
\* nearest intersection of the probe is the casting object's, it returns the
\* first intersection of another object further along the probe, and no hit if
\* there is none.
C5_FirstOtherObject ==
    CastReturns =>
        /\ hit => hit_obj # obj
        /\ LET mine == ProbeSelf(hist.start0)
               others == ProbeOthers(hist.start0)
           IN  (mine # {} /\ \A i \in others : \A m \in mine : i.t > SetMin({j.t : j \in mine})) =>
                  IF others = {} THEN ~hit
                  ELSE /\ hit
                       /\ \E i \in others :
                             /\ \A j \in others : i.t <= j.t
                             /\ loc = F32v(Add(hist.start0, Scale(direction, i.t)))
                             /\ normal = i.n

(* C6 *)

C7_AlignedRestsOnPlane ==
    \A o \in Hits :
        align_rotation =>
            /\ Scale(Rotate(rotation[o], <<0, 0, 1>>), UnitLen) = hist.cast[o].normal
            /\ MinAlong(o, hist.cast[o].loc, hist.cast[o].normal) = 0

(* C8 *)

\* C8 as stated: a hit cast_axis_ray returns lies within 2 * ray_max of the first
\* ray origin, and when no other object's geometry lies on that segment the
\* result is no hit.
C8_ProbeIsTwiceRayMax ==
    CastReturns =>
        /\ hit => /\ 0 <= Dot(Sub(loc, hist.start0), direction)
                  /\ Dot(Sub(loc, hist.start0), direction) <= RayDistance
        /\ ProbeOthers(hist.start0) = {} => ~hit

(* C9 *)

\* C9 as stated: every retry starts strictly beyond the self-hit that caused it,
\* no self-hit point is reported twice, and the retries number at most the
\* casting object's intersections with the ray.
C9_RetriesAdvance ==
    (pc = "while" /\ hist.retries > 0) =>
        LET seen == IF SelfHit THEN Append(hist.selfHits, loc) ELSE hist.selfHits
        IN  /\ Dot(Sub(start, hist.selfHits[Len(hist.selfHits)]), direction) > 0
            /\ \A j, k \in 1..Len(seen) : j # k => seen[j] # seen[k]
            /\ hist.retries <=
                  Cardinality({ i \in Intersections(matrix_world, obj, hist.start0, direction) :
                                  i.t >= 0 })

(* C10 *)

\* C10 as stated: the result of every ray query is a result of that query on the
\* scene as the properties written so far place it.
C10_QuerySeesWrites ==
    pc = "while" =>
        [hit |-> hit, loc |-> loc, normal |-> normal, obj |-> hit_obj]
            \in RayCastIn(Evaluated, start, direction, RayDistance)

====
